---------------------------- MODULE Spec2Model ----------------------------
(***************************************************************************)
(* Model of app.py, the Streamlit front end of the Bayes "Plan Checker".   *)
(*                                                                         *)
(* Streamlit re-executes the whole script on every user interaction; one   *)
(* action of this model is one execution of the script with at most one    *)
(* button pressed.  st.session_state survives between executions and is    *)
(* the state of the model.  The values of the upload widgets and of the    *)
(* context form at the time of the execution are the inputs of the action. *)
(* An uncaught exception ends the execution: the session keys written      *)
(* before it keep their new values, everything after it is skipped.        *)
(*                                                                         *)
(* engine1_text, engine2_context and engine3_model are imported by app.py  *)
(* and are not part of the sources at hand; their operators below follow   *)
(* the written specification of those components.                          *)
(*                                                                         *)
(* Units: rulebook scores are integers 0..ScoreCap (tenths), the two       *)
(* sliders of the context form are counted in steps of 0.5 (0..6).         *)
(***************************************************************************)
EXTENDS Integers, Sequences, FiniteSets, TLC

\* Python's None and a present value: an optional value is a sequence of
\* length 0 or 1, so that any two optional values can be compared.
None == <<>>
Some(x) == <<x>>
Val(o) == o[1]

Abs(x) == IF x < 0 THEN -x ELSE x
Max2(a, b) == IF a >= b THEN a ELSE b
Min2(a, b) == IF a <= b THEN a ELSE b

\* dict.update: the keys of b are added to a, a key of both takes b's value.
DictUpdate(a, b) ==
    [k \in (DOMAIN a) \cup (DOMAIN b) |-> IF k \in DOMAIN b THEN b[k] ELSE a[k]]

EmptyDict == [k \in {} |-> 0]

RECURSIVE SumOver(_, _)
SumOver(f, S) ==
    IF S = {} THEN 0
    ELSE LET k == CHOOSE x \in S : TRUE
         IN  f[k] + SumOver(f, S \ {k})

(***************************************************************************)
(* Documents.  An uploaded PDF has a name and a body; a body is named by a *)
(* label and stands for the lexicon matches per dimension its text holds.  *)
(***************************************************************************)
Dimensions ==
    <<"Heritage_Harm", "Design_Quality", "Amenity_Harm", "Ecology_Harm",
      "GB_Harm", "Flood_Risk", "Economic_Benefit", "Social_Benefit",
      "Policy_Compliance">>

DimSet == {Dimensions[i] : i \in 1..Len(Dimensions)}

ZeroHits == [d \in DimSet |-> 0]

\* The lexicon matches of the texts the model explores.
Hits(text) ==
    CASE text = "A" -> [ZeroHits EXCEPT !["Heritage_Harm"] = 2, !["Design_Quality"] = 1]
      [] text = "B" -> [ZeroHits EXCEPT !["Heritage_Harm"] = 1, !["Flood_Risk"] = 5,
                                        !["Economic_Benefit"] = 2]
      [] OTHER -> ZeroHits

File(n, b) == [name |-> n, body |-> b]

\* engine1_text.extract_text_from_pdf: the plain text of the document, None
\* when extraction is not possible.
extract_text_from_pdf(f) ==
    IF f.body = "corrupt" THEN None ELSE Some(f.body)

Weight == 3
ScoreCap == 10

\* engine1_text.base_scores_from_text: every dimension present, count-weighted
\* and capped; an absent text scores zero everywhere.
base_scores_from_text(text) ==
    IF text = None THEN [d \in DimSet |-> 0]
    ELSE [d \in DimSet |-> Min2(Hits(Val(text))[d] * Weight, ScoreCap)]

XName(i) ==
    CASE i = 1 -> "X1_Heritage_Harm"
      [] i = 2 -> "X2_Design_Quality"
      [] i = 3 -> "X3_Amenity_Harm"
      [] i = 4 -> "X4_Ecology_Harm"
      [] i = 5 -> "X5_GB_Harm"
      [] i = 6 -> "X6_Flood_Risk"
      [] i = 7 -> "X7_Economic_Benefit"
      [] i = 8 -> "X8_Social_Benefit"
      [] i = 9 -> "X9_Policy_Compliance"
      [] i = 10 -> "X10_Spin_Index"
      [] i = 11 -> "X11_Housing_Pressure"
      [] i = 12 -> "X12_TB_Status"
      [] i = 13 -> "X13_Plan_Age"
      [] i = 14 -> "X14_Committee_Attitude"
      [] i = 15 -> "X15_GB_Flag"
      [] i = 16 -> "X16_Floodzone_Level"

DocKeys == {XName(i) : i \in 1..10}
CtxKeys == {XName(i) : i \in 11..16}

DimIndexOf == [k \in {XName(i) : i \in 1..9} |-> CHOOSE i \in 1..9 : XName(i) = k]
DimIndex(k) == DimIndexOf[k]

\* engine1_text.engine1_run: the aggregator.  X1..X9 are the maximum of the
\* PS and the CR score, X10 the mean absolute difference of the two maps (0
\* when one of them is absent); the AP score map, if there is one, is carried
\* under the reserved key.  It refuses to run without a PS and a CR.
engine1_run(ps_text, cr_text, ap_text) ==
    IF ps_text = None /\ cr_text = None
    THEN [raised |-> "MissingEvidenceError"]
    ELSE LET ps == base_scores_from_text(ps_text)
             cr == base_scores_from_text(cr_text)
             diff == [d \in DimSet |-> Abs(ps[d] - cr[d])]
             spin == IF ps_text = None \/ cr_text = None THEN 0
                     ELSE SumOver(diff, DimSet) \div Len(Dimensions)
             xs == [k \in DocKeys |->
                      IF k = "X10_Spin_Index" THEN spin
                      ELSE Max2(ps[Dimensions[DimIndex(k)]], cr[Dimensions[DimIndex(k)]])]
             ap == IF ap_text = None THEN EmptyDict
                   ELSE [k \in {"Appeal_Scores"} |-> base_scores_from_text(ap_text)]
         IN  [raised |-> "",
              ps_scores |-> IF ps_text = None THEN EmptyDict ELSE ps,
              cr_scores |-> IF cr_text = None THEN EmptyDict ELSE cr,
              doc_features |-> DictUpdate(xs, ap)]


(***************************************************************************)
(* Engine 2: the context form and the context feature builder.             *)
(***************************************************************************)
\* st.slider(min, max, value, step): the values a slider lets the user pick.
SliderValues(min, max, step) == {min + i * step : i \in 0..((max - min) \div step)}

\* The housing pressure slider drawn up to 3.5.
HousingPressureOptionsWide == SliderValues(0, 7, 1)

\* The widgets of context_form (sliders in steps of 0.5, counted in halves).
HousingPressureOptions == SliderValues(0, 6, 1)
TbStatusOptions == {0, 1, 2}
PlanAgeOptions == {0, 1, 2}
CommitteeAttitudeOptions == SliderValues(0, 6, 1)
GbFlagOptions == {0, 1}
FloodzoneLevelOptions == {0, 1, 2, 3}

\* Every selection the form lets the user submit.
FormSelections ==
    [housing_pressure : HousingPressureOptions,
     tb_status : TbStatusOptions,
     plan_age : PlanAgeOptions,
     committee_attitude : CommitteeAttitudeOptions,
     gb_flag : GbFlagOptions,
     floodzone_level : FloodzoneLevelOptions]

\* The values the widgets show before the user touches them.
DefaultSelection ==
    [housing_pressure |-> 3, tb_status |-> 1, plan_age |-> 1,
     committee_attitude |-> 3, gb_flag |-> 0, floodzone_level |-> 0]

\* The documented ranges of the six inputs (sliders in halves: [0,3] is 0..6).
InRange(sel) ==
    /\ sel.housing_pressure >= 0 /\ sel.housing_pressure <= 6
    /\ sel.committee_attitude >= 0 /\ sel.committee_attitude <= 6
    /\ sel.tb_status \in {0, 1, 2}
    /\ sel.plan_age \in {0, 1, 2}
    /\ sel.gb_flag \in {0, 1}
    /\ sel.floodzone_level \in {0, 1, 2, 3}

\* engine2_context.build_context_features: one variable per input, no
\* clamping; an input outside its range is refused.
build_context_features(sel) ==
    IF ~InRange(sel) THEN [raised |-> "InvalidContextError"]
    ELSE [raised |-> "",
          ctx_features |->
              [k \in CtxKeys |->
                  CASE k = "X11_Housing_Pressure" -> sel.housing_pressure
                    [] k = "X12_TB_Status" -> sel.tb_status
                    [] k = "X13_Plan_Age" -> sel.plan_age
                    [] k = "X14_Committee_Attitude" -> sel.committee_attitude
                    [] k = "X15_GB_Flag" -> sel.gb_flag
                    [] k = "X16_Floodzone_Level" -> sel.floodzone_level]]

(***************************************************************************)
(* Engine 3: the prediction model.                                         *)
(***************************************************************************)
InteractionNames == <<"Z1_Heritage_x_GB", "Z2_Flood_x_Floodzone">>

\* The fixed coefficient table (integers; the linear score is in tenths).
Coefficient ==
    [k \in DocKeys \cup CtxKeys
           \cup {InteractionNames[i] : i \in 1..Len(InteractionNames)} |->
        CASE k = "X1_Heritage_Harm" -> -3
          [] k = "X2_Design_Quality" -> 2
          [] k = "X3_Amenity_Harm" -> -2
          [] k = "X4_Ecology_Harm" -> -2
          [] k = "X5_GB_Harm" -> -3
          [] k = "X6_Flood_Risk" -> -2
          [] k = "X7_Economic_Benefit" -> 2
          [] k = "X8_Social_Benefit" -> 2
          [] k = "X9_Policy_Compliance" -> 3
          [] k = "X10_Spin_Index" -> -1
          [] k = "X11_Housing_Pressure" -> 2
          [] k = "X12_TB_Status" -> 4
          [] k = "X13_Plan_Age" -> 3
          [] k = "X14_Committee_Attitude" -> 2
          [] k = "X15_GB_Flag" -> -8
          [] k = "X16_Floodzone_Level" -> -4
          [] k = "Z1_Heritage_x_GB" -> -1
          [] k = "Z2_Flood_x_Floodzone" -> -1]

Intercept == -5

\* A variable the map does not hold counts as 0 in an interaction term.
Get(X, k) == IF k \in DOMAIN X THEN X[k] ELSE 0

Interactions(X) ==
    [z \in {InteractionNames[i] : i \in 1..Len(InteractionNames)} |->
        IF z = "Z1_Heritage_x_GB"
        THEN Get(X, "X1_Heritage_Harm") * Get(X, "X15_GB_Flag")
        ELSE Get(X, "X6_Flood_Risk") * Get(X, "X16_Floodzone_Level")]

\* logistic(z / 10) in thousandths, read off in steps of 0.5 and never 0 or 1000.
Logistic(z) ==
    CASE z < -30 -> 18
      [] z < -25 -> 47
      [] z < -20 -> 76
      [] z < -15 -> 119
      [] z < -10 -> 182
      [] z < -5 -> 269
      [] z < 0 -> 378
      [] z < 5 -> 500
      [] z < 10 -> 622
      [] z < 15 -> 731
      [] z < 20 -> 818
      [] z < 25 -> 881
      [] z < 30 -> 924
      [] OTHER -> 953

Rating(p) ==
    IF p >= 660 THEN "Green" ELSE IF p < 330 THEN "Red" ELSE "Amber"

ContributionRow(name, type, value) ==
    [name |-> name, type |-> type, value |-> value,
     coefficient |-> Coefficient[name],
     contribution |-> value * Coefficient[name],
     abs_contribution |-> Abs(value * Coefficient[name])]

\* r placed behind every row of the ranked list s that is at least as large.
RECURSIVE InsertRanked(_, _)
InsertRanked(s, r) ==
    IF s = <<>> THEN <<r>>
    ELSE IF Head(s).abs_contribution >= r.abs_contribution
         THEN <<Head(s)>> \o InsertRanked(Tail(s), r)
         ELSE <<r>> \o s

\* rows ranked by abs_contribution descending, ties in the order of rows.
RECURSIVE StableRank(_)
StableRank(rows) ==
    IF rows = <<>> THEN <<>>
    ELSE InsertRanked(StableRank(SubSeq(rows, 1, Len(rows) - 1)), rows[Len(rows)])

\* The rows of the variables the map holds, X1..X16 and then the interactions.
RECURSIVE VariableRows(_, _)
VariableRows(X, i) ==
    IF i > 16 THEN <<>>
    ELSE (IF XName(i) \in DOMAIN X
          THEN <<ContributionRow(XName(i),
                                 IF i <= 10 THEN "document" ELSE "context",
                                 X[XName(i)])>>
          ELSE <<>>) \o VariableRows(X, i + 1)

InteractionRows(X) ==
    [i \in 1..Len(InteractionNames) |->
        ContributionRow(InteractionNames[i], "interaction",
                        Interactions(X)[InteractionNames[i]])]

RECURSIVE SumContributions(_)
SumContributions(rows) ==
    IF rows = <<>> THEN 0
    ELSE Head(rows).contribution + SumContributions(Tail(rows))

\* engine3_model.predict_approval_probability: a key without a coefficient
\* is refused; otherwise the complete prediction record.
predict_approval_probability(X) ==
    IF \E k \in DOMAIN X : k \notin DOMAIN Coefficient
    THEN [raised |-> "UnscoredVariableError"]
    ELSE LET rows == VariableRows(X, 1) \o InteractionRows(X)
             z == Intercept + SumContributions(rows)
         IN  [raised |-> "",
              pred |-> [probability |-> Logistic(z),
                        linear_score |-> z,
                        rating |-> Rating(Logistic(z)),
                        interactions |-> Interactions(X),
                        contributions |-> StableRank(rows)]]

(***************************************************************************)
(* The inputs the model explores.                                          *)
(***************************************************************************)
\* What the three upload widgets of the first tab may hold (None: no file).
PsUploads == {None, Some(File("ps.pdf", "A")), Some(File("ps.pdf", "B")),
              Some(File("ps.pdf", "corrupt"))}
CrUploads == {None, Some(File("cr.pdf", "A")), Some(File("cr.pdf", "corrupt"))}
ApUploads == {None, Some(File("ap.pdf", "B"))}

\* The files the repository upload widget may hold; it accepts several files
\* and does not refuse two files of the same name.
RepoUploads == {File("a.pdf", "A"), File("b.pdf", "B"), File("a.pdf", "B"),
                File("c.pdf", "corrupt")}

MaxRepoFiles == 2

RepoFileLists ==
    UNION {[1..n -> RepoUploads] : n \in 0..MaxRepoFiles}

\* The uploads explored when all four tabs are used in one session.
AppPsUploads == {None, Some(File("ps.pdf", "A")), Some(File("ps.pdf", "corrupt"))}
AppCrUploads == {None, Some(File("cr.pdf", "A"))}
AppApUploads == ApUploads
AppRepoUploads == {File("a.pdf", "A"), File("b.pdf", "B")}

MaxAppFiles == 1

AppRepoFileLists ==
    UNION {[1..n -> AppRepoUploads] : n \in 0..MaxAppFiles}

\* The selections of the context form explored together with the other tabs:
\* the defaults, with the Green Belt answer free.
ExploredSelections ==
    {sel \in FormSelections :
        \A k \in (DOMAIN sel) \ {"gb_flag"} : sel[k] = DefaultSelection[k]}

(***************************************************************************)
(* State.                                                                  *)
(***************************************************************************)
VARIABLES
    ps_text, cr_text, ap_text,      \* st.session_state[...], each None or Some(v)
    ps_scores, cr_scores,
    doc_features, ctx_features,
    prediction, repo_df,
    df_contrib, top_drivers,        \* the two contribution tables last rendered
    run,                            \* what the latest execution of the script did
    hist                            \* what the executions so far have done

session == <<ps_text, cr_text, ap_text, ps_scores, cr_scores, doc_features,
             ctx_features, prediction, repo_df>>

rendered == <<df_contrib, top_drivers>>

vars == <<ps_text, cr_text, ap_text, ps_scores, cr_scores, doc_features,
          ctx_features, prediction, repo_df, df_contrib, top_drivers, run, hist>>

\* The record of an execution in which nothing was pressed and nothing called.
IdleRun ==
    [button |-> "none", outcome |-> "ok", raised |-> "",
     ps_file |-> None, cr_file |-> None, ap_file |-> None,
     extracted |-> <<>>, engine1_args |-> None, ctx_args |-> None,
     predict_arg |-> None, repo_files |-> <<>>]

\* A key set to an empty dict instead of None.
InitialValueEmptyDict == Some(EmptyDict)

\* Line 41: the value a session key is created with.
InitialValue == None

\* Lines 29-41: every session key starts as None.
Init ==
    /\ ps_text = InitialValue /\ cr_text = InitialValue /\ ap_text = InitialValue
    /\ ps_scores = InitialValue /\ cr_scores = InitialValue
    /\ doc_features = InitialValue /\ ctx_features = InitialValue
    /\ prediction = InitialValue /\ repo_df = InitialValue
    /\ df_contrib = None /\ top_drivers = None
    /\ run = IdleRun
    /\ hist = [last01 |-> "none", stored01 |-> FALSE, stored_ctx |-> FALSE,
               batch_rows |-> {}, cleared |-> FALSE]

(***************************************************************************)
(* Tab 1: "Run Engine 0 & 1 on uploaded documents".                        *)
(***************************************************************************)
\* The check of line 98 left out.
HasEvidenceUnchecked(ps_file, cr_file) == TRUE

\* Line 98: the request is served when a PS or a CR file is uploaded.
HasEvidence(ps_file, cr_file) == ps_file # None \/ cr_file # None

\* A role without a file takes the text remembered in the session.
ExtractRoleOrRemembered(file) ==
    IF file # None THEN extract_text_from_pdf(Val(file)) ELSE ps_text

\* Lines 102-104: a role is extracted when its file is uploaded.
ExtractRole(file) == IF file # None THEN extract_text_from_pdf(Val(file)) ELSE None

\* The files handed to extract_text_from_pdf, in the order of the calls.
ExtractCalls(ps_file, cr_file, ap_file) == ps_file \o cr_file \o ap_file

RunEngine01(ps_file, cr_file, ap_file) ==
    IF ~HasEvidence(ps_file, cr_file)
    THEN /\ run' = [IdleRun EXCEPT !.button = "run_engine01", !.outcome = "error",
                                   !.ps_file = ps_file, !.cr_file = cr_file,
                                   !.ap_file = ap_file]
         /\ hist' = [hist EXCEPT !.last01 = "rejected"]
         /\ UNCHANGED <<session, rendered>>
    ELSE LET ps == ExtractRole(ps_file)
             cr == ExtractRole(cr_file)
             ap == ExtractRole(ap_file)
             res == engine1_run(ps, cr, ap)
             called == [IdleRun EXCEPT !.button = "run_engine01",
                                       !.ps_file = ps_file, !.cr_file = cr_file,
                                       !.ap_file = ap_file,
                                       !.extracted = ExtractCalls(ps_file, cr_file, ap_file),
                                       !.engine1_args = Some(<<ps, cr, ap>>)]
         IN  /\ ps_text' = ps
             /\ cr_text' = cr
             /\ ap_text' = ap
             /\ IF res.raised # ""
                THEN /\ UNCHANGED <<ps_scores, cr_scores, doc_features>>
                     /\ run' = [called EXCEPT !.outcome = "exception",
                                              !.raised = res.raised]
                     /\ hist' = [hist EXCEPT !.last01 = "accepted"]
                ELSE /\ ps_scores' = Some(res.ps_scores)
                     /\ cr_scores' = Some(res.cr_scores)
                     /\ doc_features' = Some(res.doc_features)
                     /\ run' = called
                     /\ hist' = [hist EXCEPT !.last01 = "accepted", !.stored01 = TRUE]
             /\ UNCHANGED <<ctx_features, prediction, repo_df, rendered>>

(***************************************************************************)
(* Tab 2: "Save Engine 2 context inputs".                                  *)
(***************************************************************************)
SubmitCtx(sel) ==
    LET res == build_context_features(sel)
        called == [IdleRun EXCEPT !.button = "submit_ctx", !.ctx_args = Some(sel)]
    IN  /\ IF res.raised # ""
           THEN /\ UNCHANGED ctx_features
                /\ run' = [called EXCEPT !.outcome = "exception", !.raised = res.raised]
                /\ UNCHANGED hist
           ELSE /\ ctx_features' = Some(res.ctx_features)
                /\ run' = called
                /\ hist' = [hist EXCEPT !.stored_ctx = TRUE]
        /\ UNCHANGED <<ps_text, cr_text, ap_text, ps_scores, cr_scores,
                       doc_features, prediction, repo_df, rendered>>

(***************************************************************************)
(* Tab 3: "Run Engine 3 - Compute probability".                            *)
(***************************************************************************)
\* Lines 257-262: the button is drawn only when both maps are stored.
Engine3Available == doc_features # None /\ ctx_features # None

\* The second update of line 266 left out.
X_allDocOnly(doc, ctx) == DictUpdate(EmptyDict, doc)

\* Lines 264-266: the combined variable map.
X_all(doc, ctx) == DictUpdate(DictUpdate(EmptyDict, doc), ctx)

\* A failed call clears the stored record.
StorePredictionOrClear(res) ==
    IF res.raised # "" THEN prediction' = None
    ELSE prediction' = Some(res.pred)

\* Lines 269-271: the record is stored once the model has returned it.
StorePrediction(res) ==
    IF res.raised # "" THEN prediction' = prediction
    ELSE prediction' = Some(res.pred)

RunEngine3 ==
    /\ Engine3Available
    /\ LET X == X_all(Val(doc_features), Val(ctx_features))
           res == predict_approval_probability(X)
       IN  /\ StorePrediction(res)
           /\ run' = [IdleRun EXCEPT !.button = "run_engine3",
                                     !.predict_arg = Some(X),
                                     !.outcome = IF res.raised # "" THEN "exception"
                                                 ELSE "ok",
                                     !.raised = res.raised]
    /\ UNCHANGED <<ps_text, cr_text, ap_text, ps_scores, cr_scores, doc_features,
                   ctx_features, repo_df, rendered, hist>>

(***************************************************************************)
(* Tab 4: the repository.                                                  *)
(***************************************************************************)
\* Lines 368-373: the row of one uploaded file.
RepoRow(f) ==
    DictUpdate([k \in {"CaseID"} |-> f.name],
               base_scores_from_text(extract_text_from_pdf(f)))

\* The loop of line 367 stopping one file early.
AllRowsButLast(repo_files) ==
    [i \in 1..(Len(repo_files) - 1) |-> RepoRow(repo_files[i])]

\* The rows collected in the reverse of the upload order.
AllRowsReversed(repo_files) ==
    [i \in 1..Len(repo_files) |-> RepoRow(repo_files[Len(repo_files) + 1 - i])]

\* Lines 365-374: one row per uploaded file, in upload order.
AllRows(repo_files) == [i \in 1..Len(repo_files) |-> RepoRow(repo_files[i])]

\* Lines 376-378: the table built from the rows replaces the stored one.
UpdatedRepo(old, all_rows) == IF all_rows # <<>> THEN Some(all_rows) ELSE old

RunBatch(repo_files) ==
    /\ IF repo_files # <<>>
       THEN /\ repo_df' = UpdatedRepo(repo_df, AllRows(repo_files))
            /\ run' = [IdleRun EXCEPT !.button = "run_batch",
                                      !.repo_files = repo_files,
                                      !.extracted = repo_files]
            /\ hist' = [hist EXCEPT !.batch_rows =
                           @ \cup {RepoRow(repo_files[i]) : i \in 1..Len(repo_files)},
                                    !.cleared = FALSE]
       ELSE /\ UNCHANGED <<repo_df, hist>>
            /\ run' = [IdleRun EXCEPT !.button = "run_batch"]
    /\ UNCHANGED <<ps_text, cr_text, ap_text, ps_scores, cr_scores, doc_features,
                   ctx_features, prediction, rendered>>

\* The clear button resetting the stored prediction as well.
ClearRepoAndPrediction ==
    /\ repo_df' = None
    /\ prediction' = None
    /\ run' = [IdleRun EXCEPT !.button = "clear_repo"]
    /\ hist' = [hist EXCEPT !.batch_rows = {}, !.cleared = TRUE]
    /\ UNCHANGED <<ps_text, cr_text, ap_text, ps_scores, cr_scores, doc_features,
                   ctx_features, rendered>>

\* The clear button writing another key than the table's.
ClearRepoWrongKey ==
    /\ run' = [IdleRun EXCEPT !.button = "clear_repo"]
    /\ hist' = [hist EXCEPT !.batch_rows = {}, !.cleared = TRUE]
    /\ UNCHANGED <<session, rendered>>

\* Lines 360-362.
ClearRepo ==
    /\ repo_df' = None
    /\ run' = [IdleRun EXCEPT !.button = "clear_repo"]
    /\ hist' = [hist EXCEPT !.batch_rows = {}, !.cleared = TRUE]
    /\ UNCHANGED <<ps_text, cr_text, ap_text, ps_scores, cr_scores, doc_features,
                   ctx_features, prediction, rendered>>

(***************************************************************************)
(* Tab 3, lines 274-317: the contribution tables drawn for a stored        *)
(* prediction.                                                             *)
(***************************************************************************)
Swap(s, i, j) ==
    [k \in 1..Len(s) |-> IF k = i THEN s[j] ELSE IF k = j THEN s[i] ELSE s[k]]

TiedPairs(s) ==
    {p \in (1..Len(s)) \X (1..Len(s)) :
        p[1] < p[2] /\ s[p[1]].abs_contribution = s[p[2]].abs_contribution}

\* Lines 301-303: DataFrame.sort_values(by="abs_contribution", ascending=False)
\* with the default kind "quicksort".  The result is in descending order; the
\* order of rows of equal key is not defined (only "mergesort" and "stable"
\* keep it).  numpy sorts runs of up to 16 elements by insertion, which keeps
\* it; above that the model takes the order a stable sort gives and every
\* order that exchanges two rows of equal key.
sort_values(rows) ==
    LET ranked == StableRank(rows)
    IN  {ranked} \cup
        (IF Len(rows) > 16
         THEN {Swap(ranked, p[1], p[2]) : p \in TiedPairs(ranked)}
         ELSE {})

\* Line 307: DataFrame.head(n).
head(df, n) == SubSeq(df, 1, Min2(n, Len(df)))

TopN == 12

\* An execution with no button pressed that draws the third tab.
Render ==
    /\ Engine3Available
    /\ prediction # None
    /\ LET contrib_rows == Val(prediction).contributions
       IN  IF contrib_rows # <<>>
           THEN \E sorted \in sort_values(contrib_rows) :
                   /\ df_contrib' = Some(sorted)
                   /\ top_drivers' = Some(head(sorted, TopN))
           ELSE df_contrib' = None /\ top_drivers' = None
    /\ run' = IdleRun
    /\ UNCHANGED <<session, hist>>

\* An execution with no button pressed (a widget was changed).
Rerun ==
    /\ run' = IdleRun
    /\ UNCHANGED <<session, rendered, hist>>

\* The executions that serve the three tabs of one case.
NextCase ==
    \/ \E ps_file \in PsUploads, cr_file \in CrUploads, ap_file \in ApUploads :
          RunEngine01(ps_file, cr_file, ap_file)
    \/ \E sel \in ExploredSelections : SubmitCtx(sel)
    \/ RunEngine3
    \/ Rerun

\* The executions that serve the repository tab.
NextRepo ==
    \/ \E repo_files \in RepoFileLists : RunBatch(repo_files)
    \/ ClearRepo
    \/ Rerun

\* The first save of the context form in a session, for every selection the
\* form allows (the builder is a function of the selection alone).
NextForm ==
    \/ ctx_features = None /\ \E sel \in FormSelections : SubmitCtx(sel)
    \/ Rerun

\* The executions that only draw the stored prediction.
NextRender == Render

\* The executions of a session that uses all four tabs.
NextApp ==
    \/ \E ps_file \in AppPsUploads, cr_file \in AppCrUploads, ap_file \in AppApUploads :
          RunEngine01(ps_file, cr_file, ap_file)
    \/ \E sel \in ExploredSelections : SubmitCtx(sel)
    \/ RunEngine3
    \/ \E repo_files \in AppRepoFileLists : RunBatch(repo_files)
    \/ ClearRepo
    \/ Rerun

Next == NextCase \/ NextRepo

\* The whole app.
Spec == Init /\ [][Next]_vars

\* The three tabs of the case (they share no session key with the repository).
SpecCase == Init /\ [][NextCase]_vars

\* All four tabs in one session, over fewer uploads.
SpecApp == Init /\ [][NextApp]_vars

\* The repository tab.
SpecRepo == Init /\ [][NextRepo]_vars

\* The context form over all its selections.
SpecForm == Init /\ [][NextForm]_vars

\* The sessions in which a prediction is stored: Engine 0 & 1 has run on a PS
\* and a CR drawn from the uploads, a context has been saved, and Engine 3
\* has returned the record of the two maps.
RenderSelections ==
    {sel \in FormSelections :
        \A k \in (DOMAIN sel) \ {"gb_flag", "floodzone_level"} :
            sel[k] = DefaultSelection[k]}

InitRender ==
    \E ps_file \in PsUploads, cr_file \in CrUploads, sel \in RenderSelections :
        LET ps == ExtractRole(ps_file)
            cr == ExtractRole(cr_file)
            e1 == engine1_run(ps, cr, None)
            ctx == build_context_features(sel)
        IN  /\ e1.raised = ""
            /\ ps_text = ps /\ cr_text = cr /\ ap_text = None
            /\ ps_scores = Some(e1.ps_scores)
            /\ cr_scores = Some(e1.cr_scores)
            /\ doc_features = Some(e1.doc_features)
            /\ ctx_features = Some(ctx.ctx_features)
            /\ prediction =
                  Some(predict_approval_probability(
                           X_all(e1.doc_features, ctx.ctx_features)).pred)
            /\ repo_df = None
            /\ df_contrib = None /\ top_drivers = None
            /\ run = IdleRun
            /\ hist = [last01 |-> "accepted", stored01 |-> TRUE,
                       stored_ctx |-> TRUE, batch_rows |-> {}, cleared |-> FALSE]

\* The drawing of the contribution tables.
SpecRender == InitRender /\ [][NextRender]_vars


(***************************************************************************)
(* Properties.                                                             *)
(***************************************************************************)
Rows(df) == {Val(df)[i] : i \in 1..Len(Val(df))}

PredictionFields ==
    {"probability", "linear_score", "rating", "interactions", "contributions"}

\* C1, as stated: the prediction model is never called while the most recent
\* Engine 0 & 1 request had neither a PS nor a CR.
C1_NoPredictAfterRejectedRequest ==
    ~(run.predict_arg # None /\ hist.last01 = "rejected")

\* C1, amended: an Engine 0 & 1 request with neither a PS nor a CR stops with
\* an error and calls nothing, neither the extractor nor engine1_run nor the
\* prediction model; and the prediction model is called only on a
\* doc_features map stored by a request that had a PS or a CR.
C1_RejectedRequestCallsNothing ==
    /\ (run.button = "run_engine01" /\ run.ps_file = None /\ run.cr_file = None)
          => /\ run.outcome = "error"
             /\ run.extracted = <<>>
             /\ run.engine1_args = None
             /\ run.predict_arg = None
    /\ run.predict_arg # None => hist.stored01

\* C1: a request without PS and CR (an AP is uploaded) is rejected while the
\* doc_features of an earlier request are stored, ready for Engine 3.
C1_Witness ==
    /\ run.button = "run_engine01" /\ run.outcome = "error"
    /\ run.ap_file # None
    /\ doc_features # None /\ ctx_features # None

\* C2: engine1_run is called only with the PS text or the CR text present.
C2_Engine1RunHasEvidence ==
    run.engine1_args # None =>
        (Val(run.engine1_args)[1] # None \/ Val(run.engine1_args)[2] # None)

\* C3: the prediction model is called only when an Engine 0 & 1 run has
\* stored doc_features and a context save has stored ctx_features.
C3_PredictNeedsBothMaps ==
    run.predict_arg # None =>
        /\ doc_features # None /\ ctx_features # None
        /\ hist.stored01 /\ hist.stored_ctx

\* C3: the model has been called.
C3_Witness ==
    run.button = "run_engine3" /\ run.predict_arg # None /\ hist.last01 = "accepted"

\* C4: the map given to the model has exactly the keys of doc_features and of
\* ctx_features, no key is in both, and every key has the value of its map.
C4_UnionOfDisjointMaps ==
    run.predict_arg # None =>
        LET X == Val(run.predict_arg)
            doc == Val(doc_features)
            ctx == Val(ctx_features)
        IN  /\ DOMAIN X = (DOMAIN doc) \cup (DOMAIN ctx)
            /\ (DOMAIN doc) \cap (DOMAIN ctx) = {}
            /\ \A k \in DOMAIN doc : X[k] = doc[k]
            /\ \A k \in DOMAIN ctx : X[k] = ctx[k]

\* C4: the model has been called on the maps of a case with a PS and a CR and
\* a Green Belt site.
C4_Witness ==
    /\ run.predict_arg # None
    /\ ps_text # None /\ cr_text # None
    /\ Val(run.predict_arg)["X15_GB_Flag"] = 1
    /\ Val(run.predict_arg)["X1_Heritage_Harm"] > 0

\* C5: the Appeal Decision score map is never among the variables given to
\* the model; every key given to it has a coefficient.
C5_AppealScoresNotPassed ==
    run.predict_arg # None =>
        \A k \in DOMAIN Val(run.predict_arg) :
            k # "Appeal_Scores" /\ k \in DOMAIN Coefficient

\* C6: every call of build_context_features made from the form passes values
\* inside the documented ranges, and the out-of-range error never occurs.
C6_FormValuesInRange ==
    run.ctx_args # None =>
        LET a == Val(run.ctx_args)
        IN  /\ a.housing_pressure \in 0..6
            /\ a.committee_attitude \in 0..6
            /\ a.tb_status \in 0..2
            /\ a.plan_age \in 0..2
            /\ a.gb_flag \in 0..1
            /\ a.floodzone_level \in 0..3
            /\ run.raised = ""
            /\ ctx_features # None

\* C6: the form has been saved with every input at an end of its range.
C6_Witness ==
    /\ run.ctx_args # None
    /\ Val(run.ctx_args).housing_pressure = 6
    /\ Val(run.ctx_args).committee_attitude = 0
    /\ Val(run.ctx_args).tb_status = 2
    /\ Val(run.ctx_args).plan_age = 0
    /\ Val(run.ctx_args).gb_flag = 1
    /\ Val(run.ctx_args).floodzone_level = 3
    /\ Val(ctx_features)["X11_Housing_Pressure"] = 6

\* C7: prediction changes only in an Engine 3 run whose call of the model
\* returned, and then to the complete record the call returned; a failed call
\* leaves it as it was.
C7_NoPartialPrediction ==
    [][IF run'.button = "run_engine3" /\ run'.raised = ""
       THEN /\ prediction' =
                 Some(predict_approval_probability(Val(run'.predict_arg)).pred)
            /\ DOMAIN Val(prediction') = PredictionFields
       ELSE prediction' = prediction]_vars

\* C7: a call of the model has failed while a prediction was stored.
C7_Witness ==
    /\ run.button = "run_engine3"
    /\ run.raised = "UnscoredVariableError"
    /\ prediction # None

\* C8: the rows drawn are ranked by abs_contribution descending with ties in
\* the order of the model's list, and the top table is the first min(12, n).
C8_TiesKeepModelOrder ==
    df_contrib # None =>
        LET rows == Val(prediction).contributions
        IN  /\ Val(df_contrib) = StableRank(rows)
            /\ Val(top_drivers) = SubSeq(StableRank(rows), 1, Min2(12, Len(rows)))

\* C9, as stated: after a batch run the table holds a row for every document
\* processed by this run and by every earlier run since the last clear.
C9_RepositoryAccumulates ==
    run.button = "run_batch" =>
        \A r \in hist.batch_rows : repo_df # None /\ r \in Rows(repo_df)

\* C9, amended: after a batch run the table holds a row for every document
\* processed by this run (the rows of earlier runs are replaced).
C9_RepositoryHoldsThisRun ==
    run.button = "run_batch" =>
        \A i \in 1..Len(run.repo_files) :
            repo_df # None /\ RepoRow(run.repo_files[i]) \in Rows(repo_df)

\* C9: a batch run over two files has replaced the rows of an earlier run.
C9_Witness ==
    /\ run.button = "run_batch"
    /\ Len(run.repo_files) = 2
    /\ \E r \in hist.batch_rows : r \notin Rows(repo_df)

\* C10: a stored prediction is the record of the doc_features and
\* ctx_features now stored.
C10_PredictionIsCurrent ==
    prediction # None =>
        LET res == predict_approval_probability(
                       X_all(Val(doc_features), Val(ctx_features)))
        IN  res.raised = "" /\ Val(prediction) = res.pred

\* C11: the texts given to engine1_run are the texts extracted in the same
\* execution from the files uploaded, every uploaded file being extracted
\* once, in the order PS, CR, AP; a role without a file is given as None.
C11_TextsOfThisRun ==
    run.engine1_args # None =>
        /\ \A i \in 1..3 :
              LET file == <<run.ps_file, run.cr_file, run.ap_file>>[i]
              IN  Val(run.engine1_args)[i] =
                     IF file = None THEN None ELSE extract_text_from_pdf(Val(file))
        /\ run.extracted = run.ps_file \o run.cr_file \o run.ap_file
        /\ <<ps_text, cr_text, ap_text>> = Val(run.engine1_args)

\* C11: Engine 0 & 1 has run on a CR alone after an earlier run of the
\* session (a prediction is stored), and the PS is given as None.
C11_Witness ==
    /\ run.button = "run_engine01" /\ run.outcome = "ok"
    /\ run.ps_file = None /\ run.ap_file = None
    /\ Val(run.engine1_args)[1] = None
    /\ prediction # None

\* C12: a request with neither a PS nor a CR changes no session key and
\* calls neither the extractor nor engine1_run, an uploaded AP or not.
C12_RejectedRequestChangesNothing ==
    [][(run'.button = "run_engine01" /\ run'.ps_file = None /\ run'.cr_file = None)
          => /\ session' = session
             /\ run'.extracted = <<>>
             /\ run'.engine1_args = None]_vars

\* C12: a request with an AP alone has been rejected in a session that holds
\* the texts, the maps and a prediction of earlier runs.
C12_Witness ==
    /\ run.button = "run_engine01" /\ run.outcome = "error"
    /\ run.ps_file = None /\ run.cr_file = None /\ run.ap_file # None
    /\ ps_text # None /\ ap_text = None
    /\ prediction # None

\* C13: the stored scores and doc_features are those engine1_run gives for
\* the stored texts, or all six keys are None.
C13_StoredResultsConsistent ==
    \/ /\ ps_text = None /\ cr_text = None /\ ap_text = None
       /\ ps_scores = None /\ cr_scores = None /\ doc_features = None
    \/ LET res == engine1_run(ps_text, cr_text, ap_text)
       IN  /\ res.raised = ""
           /\ ps_scores = Some(res.ps_scores)
           /\ cr_scores = Some(res.cr_scores)
           /\ doc_features = Some(res.doc_features)

\* C14: each execution writes only the session keys of the button pressed in
\* it: an Engine 0 & 1 run the three texts, the two score maps and
\* doc_features; a context save ctx_features; an Engine 3 run prediction;
\* batch and clear repo_df; an execution with no button pressed no key.
C14_ActionsWriteOwnKeys ==
    [][/\ run'.button = "run_engine01" =>
              UNCHANGED <<ctx_features, prediction, repo_df>>
       /\ run'.button = "submit_ctx" =>
              UNCHANGED <<ps_text, cr_text, ap_text, ps_scores, cr_scores,
                          doc_features, prediction, repo_df>>
       /\ run'.button = "run_engine3" =>
              UNCHANGED <<ps_text, cr_text, ap_text, ps_scores, cr_scores,
                          doc_features, ctx_features, repo_df>>
       /\ run'.button \in {"run_batch", "clear_repo"} =>
              UNCHANGED <<ps_text, cr_text, ap_text, ps_scores, cr_scores,
                          doc_features, ctx_features, prediction>>
       /\ run'.button = "none" => session' = session]_vars

\* C14: the table has been cleared in a session that holds the results of
\* the three engines, and they are still there.
C14_Witness ==
    /\ run.button = "clear_repo"
    /\ doc_features # None /\ ctx_features # None /\ prediction # None
    /\ repo_df = None /\ hist.cleared

\* C15: after a batch over a non-empty list of files the table has one row
\* per file in upload order, with the file's name as CaseID and, in the other
\* columns, the scores base_scores_from_text gives for the file's text.
C15_BatchTableRows ==
    (run.button = "run_batch" /\ run.repo_files # <<>>) =>
        /\ repo_df # None
        /\ Len(Val(repo_df)) = Len(run.repo_files)
        /\ \A i \in 1..Len(run.repo_files) :
              LET row == Val(repo_df)[i]
                  f == run.repo_files[i]
                  scores == base_scores_from_text(extract_text_from_pdf(f))
              IN  /\ DOMAIN row = {"CaseID"} \cup DimSet
                  /\ row["CaseID"] = f.name
                  /\ \A d \in DimSet : row[d] = scores[d]

\* C15: a batch over two files of different names and different scores has
\* replaced an earlier table.
C15_Witness ==
    /\ run.button = "run_batch" /\ Len(run.repo_files) = 2
    /\ run.repo_files[1].name # run.repo_files[2].name
    /\ Val(repo_df)[1] # [Val(repo_df)[2] EXCEPT !["CaseID"] = run.repo_files[1].name]
    /\ Cardinality(hist.batch_rows) > 2

\* C16: no two rows of the repository table have the same CaseID.
C16_CaseIdsDistinct ==
    repo_df # None =>
        \A i, j \in 1..Len(Val(repo_df)) :
            Val(repo_df)[i]["CaseID"] = Val(repo_df)[j]["CaseID"] => i = j

\* C17: once cleared the table is None until a batch with at least one file;
\* the clear button sets it to None, only a batch with at least one file
\* makes it a table, and a batch with no file leaves it as it was.
C17_ClearedUntilNextBatch ==
    [][/\ hist.cleared => repo_df = None
       /\ hist'.cleared => repo_df' = None
       /\ run'.button = "clear_repo" => (repo_df' = None /\ hist'.cleared)
       /\ (repo_df = None /\ repo_df' # None) =>
              (run'.button = "run_batch" /\ run'.repo_files # <<>>)
       /\ (run'.button = "run_batch" /\ run'.repo_files = <<>>) =>
              repo_df' = repo_df]_vars

\* C17: a batch with no file has been requested after the table was
\* cleared, and the table is still None.
C17_Witness ==
    /\ run.button = "run_batch" /\ run.repo_files = <<>>
    /\ hist.cleared /\ repo_df = None

=============================================================================
